---------------------------- MODULE Spec2Model ----------------------------
(***************************************************************************)
(* Interview Orchestration Engine of the Eightfold interview practice      *)
(* backend: the in-memory session store of InterviewService, its           *)
(* operations (start_interview, submit_answer, submit_followup_answer,     *)
(* get_current_question), the routes that read the store, and the analysis *)
(* stages submit_answer runs (persona classifier, response evaluator,      *)
(* STAR checker, follow-up engine) and the question generator.             *)
(*                                                                         *)
(* Python values are modelled as records with a "kind" (or "t") field so   *)
(* that None, strings, numbers and objects can be compared.  A dict is a   *)
(* function whose DOMAIN is the set of keys present.  A list is a          *)
(* sequence; list index i of Python is index i + 1 here.                   *)
(***************************************************************************)
EXTENDS Integers, Sequences, FiniteSets, TLC

VARIABLES
    TOTAL_QUESTIONS,      \* settings.TOTAL_QUESTIONS, fixed when the process starts
    sessions,             \* InterviewService.sessions: dict session_id -> InterviewSession
    session_evaluations,  \* InterviewService.session_evaluations: dict session_id -> list
    persona_history,      \* InterviewService.persona_detector.persona_history
    last,                 \* the call that ran last: its arguments and what it returned or raised
    in_flight             \* the submit_answer calls suspended at a backend request, by caller

vars == <<TOTAL_QUESTIONS, sessions, session_evaluations, persona_history, last, in_flight>>

-----------------------------------------------------------------------------
(* Bounds of the model and program constants                               *)

\* accepted submit_answer calls explored (each appends to persona_history)
MaxHistory == 2

\* settings.ANSWER_TIME_SECONDS
ANSWER_TIME_SECONDS == 180

\* settings.TOTAL_QUESTIONS as shipped
DEFAULT_TOTAL_QUESTIONS == 5

\* the values settings.TOTAL_QUESTIONS is configured to: two questions, and
\* the default
QuestionCounts == {2, DEFAULT_TOTAL_QUESTIONS}

\* session ids the callers use: one caller, and two callers side by side
SessionIds == {"s1"}
StoreIds == {"s1", "s2"}

\* values datetime.now() returns (a wall clock: not necessarily increasing)
Times == {1, 2}

None == [kind |-> "None"]

Min(a, b) == IF a < b THEN a ELSE b
Max(a, b) == IF a > b THEN a ELSE b

-----------------------------------------------------------------------------
(* JSON values a backend reply can hold:                                   *)
(*   num (v the number), bool (v 0/1), null, str (v 0: empty, 1: a         *)
(*   non-numeric text), numstr (a string holding the number v), list (v 0: *)
(*   empty, 1: non-empty), bigint (an integer literal beyond the range of  *)
(*   a float, which json.loads reads as an int), nan (the literal NaN,     *)
(*   which json.loads accepts)                                             *)

JNum(n) == [t |-> "num", v |-> n]
JBool(b) == [t |-> "bool", v |-> IF b THEN 1 ELSE 0]
JNull == [t |-> "null", v |-> 0]
JStr(n) == [t |-> "str", v |-> n]
JNumStr(n) == [t |-> "numstr", v |-> n]
JList(n) == [t |-> "list", v |-> n]
JBigInt == [t |-> "bigint", v |-> 1]
JNaN == [t |-> "nan", v |-> 0]

\* Python truthiness of a JSON value (`if x`, `if not x`)
Truthy(x) ==
    CASE x.t = "num" -> x.v # 0
      [] x.t = "bool" -> x.v = 1
      [] x.t = "null" -> FALSE
      [] x.t = "str" -> x.v # 0
      [] x.t = "numstr" -> TRUE
      [] x.t = "list" -> x.v # 0
      [] x.t = "bigint" -> TRUE
      [] x.t = "nan" -> TRUE

\* dict.get(key, default)
Get(d, key, default) == IF key \in DOMAIN d THEN d[key] ELSE default

\* A backend reply: the call raised or returned no text ("error"), text that is
\* not JSON ("text"), JSON that is not an object ("nondict"), or a JSON object
\* ("json", with its content under `obj`).
ReplyError == [kind |-> "error"]
ReplyText == [kind |-> "text"]
ReplyNonDict == [kind |-> "nondict"]
ReplyJson(o) == [kind |-> "json", obj |-> o]

-----------------------------------------------------------------------------
(* Question generator                                                      *)

\* QuestionGenerator._create_generic_question: the bank has entries 1..5 and
\* questions.get(question_id, questions[1]) falls back to entry 1
_create_generic_question(question_id) ==
    [question_id |-> question_id,
     origin |-> "generic",
     n |-> IF question_id \in 1..5 THEN question_id ELSE 1]

\* QuestionGenerator._get_fallback_questions: five generic questions, 1..5
_get_fallback_questions ==
    << _create_generic_question(1), _create_generic_question(2),
       _create_generic_question(3), _create_generic_question(4),
       _create_generic_question(5) >>

\* the conversion loop: entry i (0-based) of the reply's list becomes the
\* question with question_id i + 1; an entry that fails to convert is skipped
RECURSIVE ConvertEntries(_, _, _)
ConvertEntries(entries, i, acc) ==
    IF i > Len(entries) THEN acc
    ELSE ConvertEntries(entries, i + 1,
            IF entries[i] = "ok"
            THEN Append(acc, [question_id |-> i, origin |-> "llm", n |-> i])
            ELSE acc)

\* the padding loop: while len(questions) < TOTAL: append generic(len + 1)
RECURSIVE PadGeneric(_, _)
PadGeneric(questions, total) ==
    IF Len(questions) >= total THEN questions
    ELSE PadGeneric(Append(questions, _create_generic_question(Len(questions) + 1)), total)

\* list[:n]
Take(s, n) == SubSeq(s, 1, Min(n, Len(s)))

\* QuestionGenerator.generate_questions.  A json reply holds the list under
\* "questions" (absent: the empty list), each entry "ok" or "bad" (one whose
\* conversion raises).
generate_questions(reply, total) ==
    IF reply.kind # "json" THEN _get_fallback_questions
    ELSE Take(PadGeneric(ConvertEntries(Take(reply.obj, total), 1, <<>>), total), total)

-----------------------------------------------------------------------------
(* Persona classifier                                                      *)
(* An answer text is modelled by what the code reads from it:              *)
(*   words  len(answer.split())                                            *)
(*   uniq   len(set(answer.replace(' ', '').lower()))                      *)
(*   hes    sum of answer.lower().count(w) over the hesitation words       *)
(*   star   whether answer.lower() contains a structured-narrative word    *)

PersonaType == {"confused", "efficient", "chatty", "edge_case", "normal"}

\* variant: the chatty rule is tested before the hesitation rule
_rule_based_detection_ChattyFirst(answer, duration_seconds, word_count) ==
    IF word_count < 10 THEN "edge_case"
    ELSE IF answer.uniq < 5 THEN "edge_case"
    ELSE IF word_count > 300 \/ duration_seconds > 150 THEN "chatty"
    ELSE IF answer.hes > 3 \/ (answer.hes > 1 /\ word_count < 50) THEN "confused"
    ELSE IF 50 <= word_count /\ word_count <= 150 /\ duration_seconds < 90 /\ answer.star
         THEN "efficient"
    ELSE "normal"

\* PersonaDetector._rule_based_detection
_rule_based_detection(answer, duration_seconds, word_count) ==
    IF word_count < 10 THEN "edge_case"
    ELSE IF word_count < 3 THEN "edge_case"
    ELSE IF answer.uniq < 5 THEN "edge_case"
    ELSE IF answer.hes > 3 \/ (answer.hes > 1 /\ word_count < 50) THEN "confused"
    ELSE IF word_count > 300 \/ duration_seconds > 150 THEN "chatty"
    ELSE IF 50 <= word_count /\ word_count <= 150 /\ duration_seconds < 90 /\ answer.star
         THEN "efficient"
    ELSE "normal"

\* PersonaDetector._llm_based_detection.  The reply is an error or the set of
\* keywords the upper-cased text contains.
_llm_based_detection(reply) ==
    IF reply.kind = "error" THEN "normal"
    ELSE IF "CONFUSED" \in reply.words THEN "confused"
    ELSE IF "EFFICIENT" \in reply.words THEN "efficient"
    ELSE IF "CHATTY" \in reply.words THEN "chatty"
    ELSE IF "EDGE" \in reply.words THEN "edge_case"
    ELSE "normal"

\* whether detect_persona consults the backend
PersonaEscalates(answer, duration_seconds, word_count) ==
    \/ _rule_based_detection(answer, duration_seconds, word_count) = "edge_case"
    \/ answer.words < 10

\* PersonaDetector.detect_persona: the label returned and appended to the history
detect_persona(answer, duration_seconds, word_count, reply) ==
    IF PersonaEscalates(answer, duration_seconds, word_count)
    THEN _llm_based_detection(reply)
    ELSE _rule_based_detection(answer, duration_seconds, word_count)

-----------------------------------------------------------------------------
(* Response evaluator                                                      *)

ScoreKeys == {"relevance_score", "confidence_score", "technical_depth_score", "clarity_score"}

\* ResponseEvaluator._normalize_evaluation: defaults (the keys the session
\* logic reads; strengths, weaknesses and feedback are carried along untouched)
EvalDefaults ==
    [relevance_score |-> JNum(50), confidence_score |-> JNum(50),
     technical_depth_score |-> JNum(50), clarity_score |-> JNum(50),
     is_on_topic |-> JBool(TRUE), needs_follow_up |-> JBool(FALSE),
     follow_up_reason |-> JStr(0)]

\* variant: float(x) without the clamp
NormalizeScore_NoClamp(x) ==
    IF x.t \in {"num", "bool", "numstr"} THEN JNum(x.v)
    ELSE IF x.t = "nan" THEN JNum(100)
    ELSE JNum(50)

\* max(0.0, min(100.0, float(x))), and 50.0 when float(x) raises ValueError or
\* TypeError.  float accepts numbers, booleans and numeric strings;
\* min(100.0, nan) is 100.0.
NormalizeScore(x) ==
    IF x.t \in {"num", "bool", "numstr"} THEN JNum(Max(0, Min(100, x.v)))
    ELSE IF x.t = "nan" THEN JNum(100)
    ELSE JNum(50)

\* float(x) raises OverflowError on an int too large for a float; the score
\* loop does not catch it
NormalizeRaises(evaluation) ==
    \E k \in ScoreKeys \cap DOMAIN evaluation : evaluation[k].t = "bigint"

\* ResponseEvaluator._normalize_evaluation
_normalize_evaluation(evaluation) ==
    [k \in DOMAIN EvalDefaults |->
        IF k \in ScoreKeys
        THEN NormalizeScore(Get(evaluation, k, EvalDefaults[k]))
        ELSE Get(evaluation, k, EvalDefaults[k])]

\* ResponseEvaluator._get_fallback_evaluation
_get_fallback_evaluation == EvalDefaults

\* ResponseEvaluator.evaluate: every failure (request, parse, a JSON value that
\* is not an object, an exception out of the normalization) ends in the
\* fallback
evaluate(reply) ==
    IF reply.kind = "json" /\ ~NormalizeRaises(reply.obj)
    THEN _normalize_evaluation(reply.obj)
    ELSE _get_fallback_evaluation

-----------------------------------------------------------------------------
(* STAR checker                                                            *)

Components == <<"situation", "task", "action", "result">>

\* a quality value the arithmetic (quality / 5) * 15 accepts; an int beyond
\* the float range raises OverflowError in the division
NumericQuality(x) == x.t \in {"num", "bool", "nan"}

RECURSIVE StarSum_AllComponents(_, _)
\* variant: the quality points are counted for absent components too
StarSum_AllComponents(analysis, i) ==
    IF i > Len(Components) THEN 0
    ELSE (IF Truthy(Get(analysis.present, Components[i], JBool(FALSE))) THEN 10 ELSE 0)
         + 3 * Get(analysis.quality, Components[i], JNum(0)).v
         + StarSum_AllComponents(analysis, i + 1)

RECURSIVE StarSum(_, _)
\* presence_score + quality_score over components i..4: 10 per present
\* component plus (quality / 5) * 15 = 3 * quality
StarSum(analysis, i) ==
    IF i > Len(Components) THEN 0
    ELSE (IF Truthy(Get(analysis.present, Components[i], JBool(FALSE)))
          THEN 10 + 3 * Get(analysis.quality, Components[i], JNum(0)).v
          ELSE 0) + StarSum(analysis, i + 1)

\* a present component whose quality is NaN: the total is NaN
StarSumIsNaN(analysis) ==
    \E i \in 1..Len(Components) :
        /\ Truthy(Get(analysis.present, Components[i], JBool(FALSE)))
        /\ Get(analysis.quality, Components[i], JNum(0)).t = "nan"

\* STARChecker._calculate_star_score: min(100.0, total_score), which is 100.0
\* when the total is NaN
_calculate_star_score(analysis) ==
    IF StarSumIsNaN(analysis) THEN 100 ELSE Min(100, StarSum(analysis, 1))

\* whether _calculate_star_score raises (a present component whose quality is
\* not a number)
StarScoreRaises(analysis) ==
    \E i \in 1..Len(Components) :
        /\ Truthy(Get(analysis.present, Components[i], JBool(FALSE)))
        /\ ~NumericQuality(Get(analysis.quality, Components[i], JNum(0)))

\* STARChecker._get_fallback_analysis
_get_fallback_analysis ==
    [present |-> [c \in {"situation", "task", "action", "result"} |-> JBool(FALSE)],
     quality |-> [c \in {"situation", "task", "action", "result"} |-> JNum(0)],
     score |-> 0]

\* STARChecker.check_star_pattern.  A json reply holds the x_present values
\* under `present` and the x_quality values under `quality`.
check_star_pattern(reply) ==
    IF reply.kind # "json" THEN _get_fallback_analysis
    ELSE IF StarScoreRaises(reply.obj) THEN _get_fallback_analysis
    ELSE [present |-> reply.obj.present, quality |-> reply.obj.quality,
          score |-> _calculate_star_score(reply.obj)]

-----------------------------------------------------------------------------
(* Follow-up engine                                                        *)
(* A text is a sequence of characters: "q" (any ordinary character), " ",  *)
(* "'" (a quote character) and ":".                                        *)

RECURSIVE LStrip(_, _)
LStrip(s, chars) ==
    IF s # <<>> /\ Head(s) \in chars THEN LStrip(Tail(s), chars) ELSE s

RECURSIVE RStrip(_, _)
RStrip(s, chars) ==
    IF s # <<>> /\ s[Len(s)] \in chars THEN RStrip(SubSeq(s, 1, Len(s) - 1), chars) ELSE s

\* str.strip() and str.strip(chars)
Strip(s, chars) == RStrip(LStrip(s, chars), chars)

HasColon(s) == \E i \in 1..Len(s) : s[i] = ":"

\* s.split(":", 1)[-1]
AfterFirstColon(s) ==
    LET i == CHOOSE j \in 1..Len(s) : s[j] = ":" /\ \A k \in 1..(j - 1) : s[k] # ":"
    IN  SubSeq(s, i + 1, Len(s))

\* FollowUpEngine._get_fallback_follow_up: a fixed non-empty sentence per type
_get_fallback_follow_up(follow_up_type) == <<"fallback", follow_up_type>>

\* FollowUpEngine._generate_follow_up_text.  The reply is an error or the
\* text returned.
_generate_follow_up_text(reply, follow_up_type) ==
    IF reply.kind = "error" THEN _get_fallback_follow_up(follow_up_type)
    ELSE LET follow_up == Strip(Strip(reply.text, {" "}), {"'"})
         IN  IF HasColon(follow_up)
             THEN Strip(AfterFirstColon(follow_up), {" "})
             ELSE follow_up

\* variant: the confused persona is tested before the relevance
_determine_follow_up_type_HintFirst(evaluation, persona) ==
    IF ~Truthy(evaluation.is_on_topic) THEN "redirect"
    ELSE IF persona = "confused" THEN "hint"
    ELSE IF evaluation.relevance_score.v < 60 THEN "probe"
    ELSE IF evaluation.confidence_score.v > 80 THEN "challenge"
    ELSE "probe"

\* FollowUpEngine._determine_follow_up_type
_determine_follow_up_type(evaluation, persona) ==
    IF ~Truthy(evaluation.is_on_topic) THEN "redirect"
    ELSE IF evaluation.relevance_score.v < 60 THEN "probe"
    ELSE IF persona = "confused" THEN "hint"
    ELSE IF evaluation.confidence_score.v > 80 THEN "challenge"
    ELSE IF evaluation.technical_depth_score.v < 60 THEN "probe"
    ELSE "probe"

\* whether generate_follow_up consults the backend
FollowUpRequested(evaluation) == Truthy(evaluation.needs_follow_up)

\* FollowUpQuestion(text=..., reason=..., type=...): the model validates that
\* reason is a string and raises a ValidationError otherwise
ReasonIsStr(evaluation) == evaluation.follow_up_reason.t \in {"str", "numstr"}

\* FollowUpEngine.generate_follow_up: None, the FollowUpQuestion, or the
\* ValidationError raised
generate_follow_up(evaluation, persona, reply) ==
    IF ~FollowUpRequested(evaluation) THEN None
    ELSE LET follow_up_type == _determine_follow_up_type(evaluation, persona)
             follow_up_text == _generate_follow_up_text(reply, follow_up_type)
         IN  IF follow_up_text = <<>> THEN None
             ELSE IF ~ReasonIsStr(evaluation) THEN [kind |-> "ValidationError"]
             ELSE [kind |-> "FollowUpQuestion", text |-> follow_up_text,
                   reason |-> evaluation.follow_up_reason, type |-> follow_up_type]

-----------------------------------------------------------------------------
(* Report generator                                                        *)
(* A score of the report is the rational num / den; the final              *)
(* round(score, 2) is not modelled.                                        *)

Ratio(num, den) == [num |-> num, den |-> den]

\* sum(eval_data.get(key, 50) for eval_data in all_evaluations), from entry i on
RECURSIVE SumScore(_, _, _)
SumScore(all_evaluations, key, i) ==
    IF i > Len(all_evaluations) THEN 0
    ELSE Get(all_evaluations[i], key, JNum(50)).v + SumScore(all_evaluations, key, i + 1)

\* sum(eval_data.get("star_analysis", {}).get("score", 0)), from entry i on
RECURSIVE SumStarScore(_, _)
SumStarScore(all_evaluations, i) ==
    IF i > Len(all_evaluations) THEN 0
    ELSE Get(Get(all_evaluations[i], "star_analysis", <<>>), "score", 0)
            + SumStarScore(all_evaluations, i + 1)

\* ReportGenerator._calculate_scores, before ScoreBreakdown validates the values
_calculate_scores(all_evaluations) ==
    IF all_evaluations = <<>>
    THEN [confidence |-> Ratio(50, 1), communication |-> Ratio(50, 1),
          technical_depth |-> Ratio(50, 1), star_method_usage |-> Ratio(0, 1),
          behavioral_clarity |-> Ratio(50, 1), overall |-> Ratio(50, 1)]
    ELSE LET n == Len(all_evaluations)
             confidence == SumScore(all_evaluations, "confidence_score", 1)
             technical == SumScore(all_evaluations, "technical_depth_score", 1)
             communication == SumScore(all_evaluations, "clarity_score", 1)
             star == SumStarScore(all_evaluations, 1)
             behavioral == SumScore(all_evaluations, "relevance_score", 1)
         IN  [confidence |-> Ratio(confidence, n),
              communication |-> Ratio(communication, n),
              technical_depth |-> Ratio(technical, n),
              star_method_usage |-> Ratio(star, n),
              behavioral_clarity |-> Ratio(behavioral, n),
              overall |-> Ratio(25 * confidence + 25 * technical + 25 * communication
                                + 15 * star + 10 * behavioral, 100 * n)]

\* ScoreBreakdown(...): every field is validated to lie in [0, 100]
ValidScoreBreakdown(scores) ==
    \A f \in DOMAIN scores :
        0 <= scores[f].num /\ scores[f].num <= 100 * scores[f].den

\* ReportGenerator._create_question_evaluations from slot i on: a slot is
\* paired with the evaluation at its own position; a slot beyond the list or
\* without an answer is skipped
RECURSIVE _create_question_evaluations(_, _, _)
_create_question_evaluations(session, all_evaluations, i) ==
    IF i > Len(session.questions) THEN <<>>
    ELSE LET q_session == session.questions[i]
             rest == _create_question_evaluations(session, all_evaluations, i + 1)
         IN  IF i > Len(all_evaluations) \/ q_session.initial_answer = None THEN rest
             ELSE << [question_id |-> q_session.question.question_id,
                      word_count |-> q_session.initial_answer.word_count,
                      duration_seconds |-> q_session.initial_answer.duration_seconds,
                      evaluation |-> all_evaluations[i],
                      star_score |-> Get(Get(all_evaluations[i], "star_analysis", <<>>),
                                         "score", 0),
                      persona_detected |-> q_session.persona_detected] >> \o rest

\* STARAnalysis(score=...) of every question evaluation validates
ValidQuestionEvaluations(question_evals) ==
    \A i \in 1..Len(question_evals) :
        0 <= question_evals[i].star_score /\ question_evals[i].star_score <= 100

\* the counting loop of _analyze_persona_distribution from entry i on
RECURSIVE CountEvaluationPersonas(_, _, _)
CountEvaluationPersonas(distribution, all_evaluations, i) ==
    IF i > Len(all_evaluations) THEN distribution
    ELSE LET persona == Get(all_evaluations[i], "persona", "normal")
         IN  CountEvaluationPersonas(
                IF persona \in DOMAIN distribution
                THEN [distribution EXCEPT ![persona] = @ + 1] ELSE distribution,
                all_evaluations, i + 1)

\* ReportGenerator._analyze_persona_distribution
_analyze_persona_distribution(all_evaluations) ==
    CountEvaluationPersonas([confused |-> 0, efficient |-> 0, chatty |-> 0,
                             edge_case |-> 0, normal |-> 0], all_evaluations, 1)

\* ReportGenerator.generate_report(session, all_evaluations), with the
\* backend's reply to the insights request: the report, or the exception
\* raised, and the number of backend requests made.  It assigns to neither
\* argument.
ReportOf(session, all_evaluations, reply) ==
    LET scores == _calculate_scores(all_evaluations)
        question_evals == _create_question_evaluations(session, all_evaluations, 1)
    IN  IF ~ValidScoreBreakdown(scores) \/ ~ValidQuestionEvaluations(question_evals)
        THEN [outcome |-> "ValidationError", report |-> None, requests |-> 0]
        ELSE IF reply.kind = "nondict"
        THEN [outcome |-> "AttributeError", report |-> None, requests |-> 1]
        ELSE [outcome |-> "returned",
              report |-> [session_id |-> session.session_id, scores |-> scores,
                          question_evaluations |-> question_evals,
                          persona_distribution |->
                                _analyze_persona_distribution(all_evaluations)],
              requests |-> 1]

-----------------------------------------------------------------------------
(* Interview service: the session store and its operations                 *)

\* QuestionSession(question=q)
QuestionSession(q) ==
    [question |-> q, initial_answer |-> None, follow_ups |-> <<>>,
     persona_detected |-> "normal", evaluation |-> None]

\* InterviewSession(session_id=..., questions=[...], current_question_index=0,
\* status="in_progress"); end_time defaults to None
InterviewSession(session_id, questions) ==
    [session_id |-> session_id,
     questions |-> [i \in 1..Len(questions) |-> QuestionSession(questions[i])],
     current_question_index |-> 0,
     end_time |-> None,
     status |-> "in_progress"]

\* d[k] = v on a dict
Put(d, k, v) == [x \in (DOMAIN d) \cup {k} |-> IF x = k THEN v ELSE d[x]]

\* the service's mutable state
Store == [sessions |-> sessions, session_evaluations |-> session_evaluations,
          persona_history |-> persona_history]

\* what a call did: the store it leaves and how it ended.  outcome is
\* "returned" or the exception raised; the remaining fields are those of
\* SubmitAnswerResponse, the value a read returned (result), and the number of
\* backend requests made (requests).
Outcome(S, outcome, success, follow_up_question, next_question, is_interview_complete, result, requests) ==
    [store |-> S, outcome |-> outcome, success |-> success,
     follow_up_question |-> follow_up_question, next_question |-> next_question,
     is_interview_complete |-> is_interview_complete, result |-> result,
     requests |-> requests]

Raised(S, exception, requests) ==
    Outcome(S, exception, FALSE, None, None, FALSE, None, requests)

\* SubmitAnswerResponse(success=..., follow_up_question=..., next_question=...,
\* is_interview_complete=...)
SubmitAnswerResponse(S, success, follow_up_question, next_question, is_interview_complete, requests) ==
    Outcome(S, "returned", success, follow_up_question, next_question,
            is_interview_complete, None, requests)

\* InterviewService.start_interview
start_interview(S, session_id, reply, total) ==
    LET questions == generate_questions(reply, total)
        session == InterviewSession(session_id, questions)
    IN  Outcome([S EXCEPT !.sessions = Put(S.sessions, session_id, session),
                          !.session_evaluations = Put(S.session_evaluations, session_id, <<>>)],
                "returned", TRUE, None, None, FALSE, session, 1)

\* variant: the index is clamped to the last slot instead of raising
CurrentSlot_Clamped(session) ==
    [raised |-> FALSE,
     idx |-> Min(session.current_question_index + 1, Len(session.questions))]

\* session.questions[session.current_question_index]: an IndexError when the
\* cursor is at the end of the list, else the slot's index
CurrentSlot(session) ==
    IF session.current_question_index >= Len(session.questions)
    THEN [raised |-> TRUE, idx |-> 0]
    ELSE [raised |-> FALSE, idx |-> session.current_question_index + 1]

\* variant: reads the slot before the cursor (a 1-based index into the list)
get_current_question_Previous(S, session_id) ==
    IF session_id \notin DOMAIN S.sessions THEN Raised(S, "ValueError", 0)
    ELSE LET session == S.sessions[session_id]
         IN  IF session.current_question_index >= Len(session.questions)
             THEN Outcome(S, "returned", TRUE, None, None, FALSE, None, 0)
             ELSE Outcome(S, "returned", TRUE, None, None, FALSE,
                          session.questions[Max(session.current_question_index, 1)].question, 0)

\* InterviewService.get_current_question
get_current_question(S, session_id) ==
    IF session_id \notin DOMAIN S.sessions THEN Raised(S, "ValueError", 0)
    ELSE LET session == S.sessions[session_id]
         IN  IF session.current_question_index >= Len(session.questions)
             THEN Outcome(S, "returned", TRUE, None, None, FALSE, None, 0)
             ELSE Outcome(S, "returned", TRUE, None, None, FALSE,
                          session.questions[session.current_question_index + 1].question, 0)

\* variant: the limit is read as minutes
TimeLimitExceeded_Minutes(duration_seconds) == duration_seconds > ANSWER_TIME_SECONDS * 60

\* the time-limit test of submit_answer
TimeLimitExceeded(duration_seconds) == duration_seconds > ANSWER_TIME_SECONDS

\* variant: the interview is completed one question early
AdvanceAfterAnswer_OffByOne(S, session_id, session, now, requests) ==
    LET index == session.current_question_index + 1
        moved == [session EXCEPT !.current_question_index = index]
    IN  IF index >= Len(moved.questions) - 1
        THEN SubmitAnswerResponse(
                [S EXCEPT !.sessions = Put(S.sessions, session_id,
                    [moved EXCEPT !.status = "completed",
                                  !.end_time = [kind |-> "datetime", t |-> now]])],
                TRUE, None, None, TRUE, requests)
        ELSE SubmitAnswerResponse(
                [S EXCEPT !.sessions = Put(S.sessions, session_id, moved)],
                TRUE, None, moved.questions[index + 1].question, FALSE, requests)

\* the tail of submit_answer: move to the next question, complete the
\* interview when the cursor reaches the end
AdvanceAfterAnswer(S, session_id, session, now, requests) ==
    LET index == session.current_question_index + 1
        moved == [session EXCEPT !.current_question_index = index]
    IN  IF index >= Len(moved.questions)
        THEN SubmitAnswerResponse(
                [S EXCEPT !.sessions = Put(S.sessions, session_id,
                    [moved EXCEPT !.status = "completed",
                                  !.end_time = [kind |-> "datetime", t |-> now]])],
                TRUE, None, None, TRUE, requests)
        ELSE SubmitAnswerResponse(
                [S EXCEPT !.sessions = Put(S.sessions, session_id, moved)],
                TRUE, None, moved.questions[index + 1].question, FALSE, requests)

\* variant: the follow-up branch also moves the cursor
AttachFollowUp_MovesCursor(S, session_id, idx, follow_up, requests) ==
    SubmitAnswerResponse(
        [S EXCEPT !.sessions[session_id].questions[idx].follow_ups =
                      Append(@, [question |-> follow_up.text, answer |-> None,
                                 type |-> follow_up.type]),
                  !.sessions[session_id].current_question_index = @ + 1],
        TRUE, follow_up, None, FALSE, requests)

\* variant: the follow-up branch takes the evaluation back off the list
AttachFollowUp_DropsEvaluation(S, session_id, idx, follow_up, requests) ==
    SubmitAnswerResponse(
        [S EXCEPT !.sessions[session_id].questions[idx].follow_ups =
                      Append(@, [question |-> follow_up.text, answer |-> None,
                                 type |-> follow_up.type]),
                  !.session_evaluations[session_id] = SubSeq(@, 1, Len(@) - 1)],
        TRUE, follow_up, None, FALSE, requests)

\* the follow-up branch of submit_answer: the follow-up is appended to the
\* slot's follow_ups with no answer and returned; the cursor stays
AttachFollowUp(S, session_id, idx, follow_up, requests) ==
    SubmitAnswerResponse(
        [S EXCEPT !.sessions[session_id].questions[idx].follow_ups =
            Append(@, [question |-> follow_up.text, answer |-> None,
                       type |-> follow_up.type])],
        TRUE, follow_up, None, FALSE, requests)

\* submit_answer past its two checks: record the answer on the current slot,
\* run persona -> evaluation -> STAR -> follow-up, then attach the follow-up
\* or advance.  be holds the backend's replies to the four requests the call
\* can make: persona, evaluation, star, follow_up.
process_answer(S, session_id, question_id, answer_text, duration_seconds, be, now) ==
    LET session == S.sessions[session_id]
        cur == CurrentSlot(session)
    IN  IF cur.raised THEN Raised(S, "IndexError", 0)
        ELSE
        LET word_count == answer_text.words
            answer == [kind |-> "Answer", question_id |-> question_id,
                       answer_text |-> answer_text,
                       duration_seconds |-> duration_seconds,
                       word_count |-> word_count]
            persona == detect_persona(answer_text, duration_seconds, word_count, be.persona)
            star_analysis == check_star_pattern(be.star)
            evaluation == [star_analysis |-> star_analysis, word_count |-> word_count,
                           persona |-> persona] @@ evaluate(be.evaluation)
            follow_up == generate_follow_up(evaluation, persona, be.follow_up)
            requests == (IF PersonaEscalates(answer_text, duration_seconds, word_count)
                         THEN 1 ELSE 0) + 2
                        + (IF FollowUpRequested(evaluation) THEN 1 ELSE 0)
            recorded == [session EXCEPT
                            !.questions[cur.idx].initial_answer = answer,
                            !.questions[cur.idx].persona_detected = persona,
                            !.questions[cur.idx].evaluation = evaluation]
            S1 == [sessions |-> Put(S.sessions, session_id, recorded),
                   session_evaluations |->
                       Put(S.session_evaluations, session_id,
                           Append(S.session_evaluations[session_id], evaluation)),
                   persona_history |-> Append(S.persona_history, persona)]
        IN  IF follow_up.kind = "ValidationError"
            THEN Raised(S1, "ValidationError", requests)
            ELSE IF follow_up.kind = "FollowUpQuestion"
            THEN AttachFollowUp(S1, session_id, cur.idx, follow_up, requests)
            ELSE AdvanceAfterAnswer(S1, session_id, recorded, now, requests)

\* variant: the time limit is tested before the session is looked up
submit_answer_LimitFirst(S, session_id, question_id, answer_text, duration_seconds, be, now) ==
    IF TimeLimitExceeded(duration_seconds)
    THEN SubmitAnswerResponse(S, FALSE, None, None, FALSE, 0)
    ELSE IF session_id \notin DOMAIN S.sessions THEN Raised(S, "ValueError", 0)
    ELSE process_answer(S, session_id, question_id, answer_text, duration_seconds, be, now)

\* InterviewService.submit_answer: the session lookup, the time limit, then
\* the pipeline
submit_answer(S, session_id, question_id, answer_text, duration_seconds, be, now) ==
    IF session_id \notin DOMAIN S.sessions THEN Raised(S, "ValueError", 0)
    ELSE IF TimeLimitExceeded(duration_seconds)
    THEN SubmitAnswerResponse(S, FALSE, None, None, FALSE, 0)
    ELSE process_answer(S, session_id, question_id, answer_text, duration_seconds, be, now)

\* variant: the follow-up answer moves the cursor past the next question too
AdvanceAfterFollowup_SkipsOne(S, session_id, session, now) ==
    LET index == session.current_question_index + 2
        moved == [session EXCEPT !.current_question_index = index]
    IN  IF index >= Len(moved.questions)
        THEN SubmitAnswerResponse(
                [S EXCEPT !.sessions = Put(S.sessions, session_id,
                    [moved EXCEPT !.status = "completed",
                                  !.end_time = [kind |-> "datetime", t |-> now]])],
                TRUE, None, None, TRUE, 0)
        ELSE SubmitAnswerResponse(
                [S EXCEPT !.sessions = Put(S.sessions, session_id, moved)],
                TRUE, None, moved.questions[index + 1].question, FALSE, 0)

\* the tail of submit_followup_answer
AdvanceAfterFollowup(S, session_id, session, now) ==
    LET index == session.current_question_index + 1
        moved == [session EXCEPT !.current_question_index = index]
    IN  IF index >= Len(moved.questions)
        THEN SubmitAnswerResponse(
                [S EXCEPT !.sessions = Put(S.sessions, session_id,
                    [moved EXCEPT !.status = "completed",
                                  !.end_time = [kind |-> "datetime", t |-> now]])],
                TRUE, None, None, TRUE, 0)
        ELSE SubmitAnswerResponse(
                [S EXCEPT !.sessions = Put(S.sessions, session_id, moved)],
                TRUE, None, moved.questions[index + 1].question, FALSE, 0)

\* variant: the text goes to the first follow-up of the slot
StoreFollowupAnswer_First(q_session, answer_text) ==
    IF q_session.follow_ups # <<>>
    THEN [q_session EXCEPT !.follow_ups[1].answer = answer_text]
    ELSE q_session

\* q_session.follow_ups[-1]["answer"] = answer_text, when the list is not empty
StoreFollowupAnswer(q_session, answer_text) ==
    IF q_session.follow_ups # <<>>
    THEN [q_session EXCEPT !.follow_ups[Len(q_session.follow_ups)].answer = answer_text]
    ELSE q_session

\* InterviewService.submit_followup_answer
submit_followup_answer(S, session_id, answer_text, duration_seconds, now) ==
    IF session_id \notin DOMAIN S.sessions THEN Raised(S, "ValueError", 0)
    ELSE
    LET session == S.sessions[session_id]
        cur == CurrentSlot(session)
    IN  IF cur.raised THEN Raised(S, "IndexError", 0)
        ELSE AdvanceAfterFollowup(S, session_id,
                [session EXCEPT !.questions[cur.idx] = StoreFollowupAnswer(@, answer_text)],
                now)

\* routes.get_session: 404 for an unknown id, else the session's status
get_session_status(S, session_id) ==
    IF session_id \notin DOMAIN S.sessions THEN Raised(S, "HTTP404", 0)
    ELSE LET session == S.sessions[session_id]
         IN  Outcome(S, "returned", TRUE, None, None, FALSE,
                     [status |-> session.status,
                      current_question |-> session.current_question_index + 1,
                      total_questions |-> Len(session.questions)], 0)

\* variant: the aggregation consumes the evaluation list it is handed
report_gen_generate_report_Consuming(S, session_id, reply) ==
    LET r == ReportOf(S.sessions[session_id],
                      Get(S.session_evaluations, session_id, <<>>), reply)
    IN  Outcome([S EXCEPT !.session_evaluations =
                    Put(S.session_evaluations, session_id, <<>>)],
                r.outcome, r.outcome = "returned", None, None, FALSE,
                r.report, r.requests)

\* report_gen.generate_report(session, get_session_evaluations(session_id)) as
\* the routes call it
report_gen_generate_report(S, session_id, reply) ==
    LET r == ReportOf(S.sessions[session_id],
                      Get(S.session_evaluations, session_id, <<>>), reply)
    IN  Outcome(S, r.outcome, r.outcome = "returned", None, None, FALSE,
                r.report, r.requests)

\* except Exception: raise HTTPException(status_code=500)
ServerErrorOnException(r) ==
    IF r.outcome = "returned" THEN r ELSE [r EXCEPT !.outcome = "HTTP500"]

\* routes.generate_report: 404 for an unknown id, 400 while the interview is
\* not completed, else the report
generate_report(S, session_id, reply) ==
    IF session_id \notin DOMAIN S.sessions THEN Raised(S, "HTTP404", 0)
    ELSE IF S.sessions[session_id].status # "completed" THEN Raised(S, "HTTP400", 0)
    ELSE ServerErrorOnException(report_gen_generate_report(S, session_id, reply))

\* routes.download_pdf: 404 for an unknown id, else the report
download_pdf(S, session_id, reply) ==
    IF session_id \notin DOMAIN S.sessions THEN Raised(S, "HTTP404", 0)
    ELSE ServerErrorOnException(report_gen_generate_report(S, session_id, reply))

-----------------------------------------------------------------------------
(* Inputs of the calls                                                     *)

\* answer texts: a 40-word answer and a 2-word answer
LongAnswer == [words |-> 40, uniq |-> 12, hes |-> 0, star |-> FALSE]
ShortAnswer == [words |-> 2, uniq |-> 6, hes |-> 0, star |-> FALSE]

\* replies of the backend to the question generator's request: text that is
\* not JSON, and three entries the first of which does not convert
QuestionReplies == {ReplyText, ReplyJson(<<"bad", "ok", "ok">>)}

\* an evaluation reply with the given needs_follow_up and follow_up_reason
EvalReply(needs, reason) ==
    ReplyJson([relevance_score |-> JNum(75), confidence_score |-> JNum(170),
               needs_follow_up |-> needs, follow_up_reason |-> reason])

StarReply ==
    ReplyJson([present |-> [situation |-> JBool(TRUE), task |-> JBool(TRUE),
                            action |-> JBool(TRUE), result |-> JBool(FALSE)],
               quality |-> [situation |-> JNum(4), task |-> JNum(3),
                            action |-> JNum(5), result |-> JNum(0)]])

TextReply(s) == [kind |-> "returned", text |-> s]
WordsReply(w) == [kind |-> "returned", words |-> w]

\* the backend asks for no follow-up
BackendNoFollowUp ==
    [persona |-> WordsReply({"NORMAL"}), evaluation |-> EvalReply(JBool(FALSE), JStr(0)),
     star |-> StarReply, follow_up |-> ReplyError]

\* the backend asks for a follow-up and phrases it
BackendFollowUp ==
    [persona |-> WordsReply({"CONFUSED"}), evaluation |-> EvalReply(JBool(TRUE), JStr(1)),
     star |-> StarReply, follow_up |-> TextReply(<<" ", "'", "q", ":", " ", "q", "'">>)]

\* the backend asks for a follow-up and gives null as its reason
BackendNullReason ==
    [persona |-> WordsReply({"NORMAL"}), evaluation |-> EvalReply(JBool(TRUE), JNull),
     star |-> StarReply, follow_up |-> TextReply(<<"q">>)]

\* every request to the backend fails
BackendDown ==
    [persona |-> ReplyError, evaluation |-> ReplyError,
     star |-> ReplyError, follow_up |-> ReplyError]

Submission(question_id, answer_text, duration_seconds, be) ==
    [question_id |-> question_id, answer_text |-> answer_text,
     duration_seconds |-> duration_seconds, be |-> be]

\* the submit_answer calls explored: durations at the limit and one second
\* over it, question ids 1 and 2 whatever the current question is
Submissions ==
    { Submission(1, LongAnswer, ANSWER_TIME_SECONDS, BackendNoFollowUp),
      Submission(2, LongAnswer, ANSWER_TIME_SECONDS, BackendFollowUp),
      Submission(1, LongAnswer, ANSWER_TIME_SECONDS, BackendNullReason),
      Submission(2, ShortAnswer, ANSWER_TIME_SECONDS, BackendDown),
      Submission(1, LongAnswer, ANSWER_TIME_SECONDS + 1, BackendFollowUp) }

\* the submit_answer calls explored with two callers
StoreSubmissions ==
    { Submission(1, LongAnswer, ANSWER_TIME_SECONDS, BackendNoFollowUp),
      Submission(1, LongAnswer, ANSWER_TIME_SECONDS, BackendFollowUp),
      Submission(1, LongAnswer, ANSWER_TIME_SECONDS + 1, BackendFollowUp) }

\* replies of the backend to the report's insights request: the request
\* fails, or JSON that is not an object
InsightReplies == {ReplyError, ReplyNonDict}

\* the call that ran last
Call(op, session_id, question_id, answer_text, duration_seconds, r) ==
    [op |-> op, session_id |-> session_id, question_id |-> question_id,
     answer_text |-> answer_text,
     duration_seconds |-> duration_seconds, outcome |-> r.outcome,
     success |-> r.success, follow_up_question |-> r.follow_up_question,
     next_question |-> r.next_question,
     is_interview_complete |-> r.is_interview_complete,
     result |-> r.result, requests |-> r.requests]

\* the store after a call
Becomes(r) ==
    /\ sessions' = r.store.sessions
    /\ session_evaluations' = r.store.session_evaluations
    /\ persona_history' = r.store.persona_history

-----------------------------------------------------------------------------
(* The state machine                                                       *)

NoCall ==
    [op |-> "none", session_id |-> "", question_id |-> 0,
     answer_text |-> None, duration_seconds |-> 0, outcome |-> "returned", success |-> FALSE,
     follow_up_question |-> None, next_question |-> None,
     is_interview_complete |-> FALSE, result |-> None, requests |-> 0]

Init ==
    /\ TOTAL_QUESTIONS \in QuestionCounts
    /\ sessions = <<>>
    /\ session_evaluations = <<>>
    /\ persona_history = <<>>
    /\ in_flight = <<>>
    /\ last = NoCall

Start(session_id, reply) ==
    LET r == start_interview(Store, session_id, reply, TOTAL_QUESTIONS)
    IN  /\ Becomes(r)
        /\ last' = Call("start", session_id, 0, None, 0, r)
        /\ UNCHANGED <<TOTAL_QUESTIONS, in_flight>>

SubmitAnswer(session_id, question_id, answer_text, duration_seconds, be, now) ==
    LET r == submit_answer(Store, session_id, question_id, answer_text, duration_seconds, be, now)
    IN  /\ Len(r.store.persona_history) <= MaxHistory
        /\ Becomes(r)
        /\ last' = Call("submit_answer", session_id, question_id, answer_text, duration_seconds, r)
        /\ UNCHANGED <<TOTAL_QUESTIONS, in_flight>>

SubmitFollowupAnswer(session_id, answer_text, duration_seconds, now) ==
    LET r == submit_followup_answer(Store, session_id, answer_text, duration_seconds, now)
    IN  /\ Becomes(r)
        /\ last' = Call("submit_followup_answer", session_id, 0, answer_text, duration_seconds, r)
        /\ UNCHANGED <<TOTAL_QUESTIONS, in_flight>>

GetCurrentQuestion(session_id) ==
    LET r == get_current_question(Store, session_id)
    IN  /\ Becomes(r)
        /\ last' = Call("get_current_question", session_id, 0, None, 0, r)
        /\ UNCHANGED <<TOTAL_QUESTIONS, in_flight>>

GetSessionStatus(session_id) ==
    LET r == get_session_status(Store, session_id)
    IN  /\ Becomes(r)
        /\ last' = Call("get_session_status", session_id, 0, None, 0, r)
        /\ UNCHANGED <<TOTAL_QUESTIONS, in_flight>>

GenerateReport(session_id, reply) ==
    LET r == generate_report(Store, session_id, reply)
    IN  /\ Becomes(r)
        /\ last' = Call("get_report", session_id, 0, None, 0, r)
        /\ UNCHANGED <<TOTAL_QUESTIONS, in_flight>>

DownloadPdf(session_id, reply) ==
    LET r == download_pdf(Store, session_id, reply)
    IN  /\ Becomes(r)
        /\ last' = Call("download_pdf", session_id, 0, None, 0, r)
        /\ UNCHANGED <<TOTAL_QUESTIONS, in_flight>>

\* one caller driving one session id through its whole lifecycle
Next ==
    \/ \E id \in SessionIds, reply \in QuestionReplies : Start(id, reply)
    \/ \E id \in SessionIds, sub \in Submissions, now \in Times :
            SubmitAnswer(id, sub.question_id, sub.answer_text, sub.duration_seconds, sub.be, now)
    \/ \E id \in SessionIds, now \in Times :
            SubmitFollowupAnswer(id, LongAnswer, ANSWER_TIME_SECONDS, now)
    \/ \E id \in SessionIds : GetCurrentQuestion(id)

Spec == Init /\ [][Next]_vars

\* two callers and every operation of the transport surface, with a question
\* count that is not the default and a backend that answers the question
\* request well
InitStore ==
    /\ TOTAL_QUESTIONS = 2
    /\ sessions = <<>>
    /\ session_evaluations = <<>>
    /\ persona_history = <<>>
    /\ in_flight = <<>>
    /\ last = NoCall

NextStore ==
    \/ \E id \in StoreIds : Start(id, ReplyJson(<<"ok", "ok">>))
    \/ \E id \in StoreIds, sub \in StoreSubmissions, now \in Times :
            SubmitAnswer(id, sub.question_id, sub.answer_text, sub.duration_seconds, sub.be, now)
    \/ \E id \in StoreIds, now \in Times :
            SubmitFollowupAnswer(id, LongAnswer, ANSWER_TIME_SECONDS, now)
    \/ \E id \in StoreIds : GetCurrentQuestion(id)
    \/ \E id \in StoreIds : GetSessionStatus(id)
    \/ \E id \in StoreIds, reply \in InsightReplies : GenerateReport(id, reply)
    \/ \E id \in StoreIds, reply \in InsightReplies : DownloadPdf(id, reply)

StoreSpec == InitStore /\ [][NextStore]_vars

-----------------------------------------------------------------------------
(* The analysis stages called on their own, as the unit tests call them     *)

\* a key the backend left out of its JSON object
Absent == [t |-> "absent", v |-> 0]

\* the JSON object holding the fields that are not Absent
Present(fields) == [k \in {x \in DOMAIN fields : fields[x] # Absent} |-> fields[k]]

\* values the backend gives a score: out of range on both sides, in range, a
\* text, a numeric string, null, a boolean, a huge integer, NaN, a list
ScoreValues ==
    {Absent, JNum(-5), JNum(75), JNum(170), JStr(1), JNumStr(75), JNull,
     JBool(TRUE), JBigInt, JNaN, JList(1)}

\* replies of the backend to the evaluation prompt
EvaluationReplies ==
    {ReplyError, ReplyText, ReplyNonDict} \cup
    { ReplyJson(Present([relevance_score |-> r, confidence_score |-> c,
                         technical_depth_score |-> d, clarity_score |-> l,
                         needs_follow_up |-> n])) :
        r \in ScoreValues, c \in ScoreValues, d \in {Absent, JNum(170)},
        l \in {JNum(75), JBigInt}, n \in {Absent, JBool(TRUE)} }

\* a stage about to be called with a backend that will reply `reply`
Pending(reply) == [op |-> "input", reply |-> reply, result |-> None]

\* a fresh service and one pending call drawn from `calls`
InitCall(calls) ==
    /\ TOTAL_QUESTIONS = DEFAULT_TOTAL_QUESTIONS
    /\ sessions = <<>>
    /\ session_evaluations = <<>>
    /\ persona_history = <<>>
    /\ in_flight = <<>>
    /\ last \in calls

InitEvaluator == InitCall({Pending(reply) : reply \in EvaluationReplies})

\* ResponseEvaluator.evaluate
Evaluate ==
    /\ last.op = "input"
    /\ last' = [op |-> "evaluate", reply |-> last.reply, result |-> evaluate(last.reply)]
    /\ UNCHANGED <<TOTAL_QUESTIONS, sessions, session_evaluations, persona_history, in_flight>>

NextEvaluator == Evaluate

EvaluatorSpec == InitEvaluator /\ [][NextEvaluator]_vars

\* quality values the backend gives a component: below 0, 0, 5, above 5, and
\* for the first component also null, NaN and a missing key
QualityValues == {JNum(0), JNum(5), JNum(8)}
SituationQualityValues == QualityValues \cup {JNum(-10), JNull, JNaN, Absent}

\* replies of the backend to the STAR prompt: failures, the reply with
\* qualities 4, 3, 5 on three present components, and every combination of
\* presence flags and quality values
StarReplies ==
    {ReplyError, ReplyText, ReplyNonDict, StarReply} \cup
    { ReplyJson([present |-> [situation |-> JBool(ps), task |-> JBool(pt),
                              action |-> JBool(pa), result |-> JBool(pr)],
                 quality |-> Present([situation |-> qs, task |-> qt,
                                      action |-> qa, result |-> qr])]) :
        ps \in BOOLEAN, pt \in BOOLEAN, pa \in BOOLEAN, pr \in BOOLEAN,
        qs \in SituationQualityValues, qt \in QualityValues,
        qa \in QualityValues, qr \in QualityValues }

InitStar == InitCall({Pending(reply) : reply \in StarReplies})

\* STARChecker.check_star_pattern
CheckStar ==
    /\ last.op = "input"
    /\ last' = [op |-> "check_star_pattern", reply |-> last.reply,
                result |-> check_star_pattern(last.reply)]
    /\ UNCHANGED <<TOTAL_QUESTIONS, sessions, session_evaluations, persona_history, in_flight>>

NextStar == CheckStar

StarSpec == InitStar /\ [][NextStar]_vars

\* classify calls explored on one detector
MaxClassified == 3

\* variant: only the labels seen get a key (the counting of get_dominant_persona)
get_persona_distribution_SeenOnly(history) ==
    [p \in {history[i] : i \in 1..Len(history)} |->
        Cardinality({i \in 1..Len(history) : history[i] = p})]

\* the counting loop of get_persona_distribution from entry i on
RECURSIVE CountPersonas(_, _, _)
CountPersonas(distribution, history, i) ==
    IF i > Len(history) THEN distribution
    ELSE CountPersonas([distribution EXCEPT ![history[i]] = @ + 1], history, i + 1)

\* PersonaDetector.get_persona_distribution
get_persona_distribution(history) ==
    CountPersonas([confused |-> 0, efficient |-> 0, chatty |-> 0,
                   edge_case |-> 0, normal |-> 0], history, 1)

\* answer texts by what the classifier reads from them: the single token
\* 'asdfasdf', a hesitant answer, a structured answer
AsdfAnswer == [words |-> 1, uniq |-> 4, hes |-> 0, star |-> FALSE]
HesitantAnswer == [words |-> 40, uniq |-> 12, hes |-> 2, star |-> FALSE]
StructuredAnswer == [words |-> 60, uniq |-> 12, hes |-> 0, star |-> TRUE]

Classification(answer, duration_seconds, reply) ==
    [answer |-> answer, duration_seconds |-> duration_seconds,
     word_count |-> answer.words, reply |-> reply]

\* the detect_persona calls explored: answers under and over ten words, with a
\* backend that fails, names a label, names two, or replies something else
Classifications ==
    { Classification(a, 30, r) :
        a \in {ShortAnswer, AsdfAnswer},
        r \in {ReplyError, WordsReply({}), WordsReply({"NORMAL"}),
               WordsReply({"EDGE"}), WordsReply({"CHATTY", "EFFICIENT"})} }
    \cup
    { Classification(a, d, ReplyError) :
        a \in {LongAnswer, HesitantAnswer, StructuredAnswer}, d \in {60, 160} }

\* PersonaDetector.detect_persona on the service's detector
DetectPersona(answer, duration_seconds, word_count, reply) ==
    LET persona == detect_persona(answer, duration_seconds, word_count, reply)
    IN  /\ Len(persona_history) < MaxClassified
        /\ persona_history' = Append(persona_history, persona)
        /\ last' = [op |-> "detect_persona", answer |-> answer,
                    duration_seconds |-> duration_seconds,
                    word_count |-> word_count, reply |-> reply, result |-> persona,
                    requests |-> IF PersonaEscalates(answer, duration_seconds, word_count)
                                 THEN 1 ELSE 0]
        /\ UNCHANGED <<TOTAL_QUESTIONS, sessions, session_evaluations, in_flight>>

\* PersonaDetector.get_persona_distribution on the service's detector
GetPersonaDistribution ==
    /\ last' = [op |-> "get_persona_distribution",
                result |-> get_persona_distribution(persona_history)]
    /\ UNCHANGED <<TOTAL_QUESTIONS, sessions, session_evaluations, persona_history, in_flight>>

InitPersona == InitCall({NoCall})

NextPersona ==
    \/ \E c \in Classifications :
            DetectPersona(c.answer, c.duration_seconds, c.word_count, c.reply)
    \/ GetPersonaDistribution

PersonaSpec == InitPersona /\ [][NextPersona]_vars

\* longest reply text explored for the follow-up request
MaxTextLen == 3

Chars == {"q", " ", "'", ":"}

\* the texts of at most n characters
RECURSIVE TextsUpTo(_)
TextsUpTo(n) ==
    IF n = 0 THEN {<<>>}
    ELSE LET shorter == TextsUpTo(n - 1)
         IN  shorter \cup {Append(s, c) : s \in {x \in shorter : Len(x) = n - 1}, c \in Chars}

\* replies of the backend to the follow-up prompt: the request fails, or a text
FollowUpReplies == {ReplyError} \cup {TextReply(s) : s \in TextsUpTo(MaxTextLen)}

\* evaluations handed to the follow-up engine, as evaluate returns them, with
\* scores on both sides of the thresholds 60 and 80
FollowUpEvaluations ==
    { _normalize_evaluation([needs_follow_up |-> n, follow_up_reason |-> why,
                             is_on_topic |-> JBool(on), relevance_score |-> JNum(rel),
                             confidence_score |-> JNum(conf),
                             technical_depth_score |-> JNum(depth)]) :
        n \in {JBool(TRUE), JBool(FALSE)}, why \in {JStr(1), JNull},
        on \in BOOLEAN, rel \in {59, 60}, conf \in {80, 81}, depth \in {59, 60} }

InitFollowUp ==
    InitCall({ [op |-> "input", evaluation |-> e, persona |-> p, reply |-> r,
                result |-> None, requests |-> 0] :
                 e \in FollowUpEvaluations, p \in PersonaType,
                 r \in FollowUpReplies })

\* FollowUpEngine.generate_follow_up
GenerateFollowUp ==
    /\ last.op = "input"
    /\ last' = [last EXCEPT
                  !.op = "generate_follow_up",
                  !.result = generate_follow_up(last.evaluation, last.persona, last.reply),
                  !.requests = IF FollowUpRequested(last.evaluation) THEN 1 ELSE 0]
    /\ UNCHANGED <<TOTAL_QUESTIONS, sessions, session_evaluations, persona_history, in_flight>>

NextFollowUp == GenerateFollowUp

FollowUpSpec == InitFollowUp /\ [][NextFollowUp]_vars

-----------------------------------------------------------------------------
(* The score aggregation called on its own                                 *)

\* the evaluation dict submit_answer stores: the evaluator's result with
\* star_analysis, word_count and persona added
StoredEvaluation(eval_reply, star_reply, word_count, persona) ==
    [star_analysis |-> check_star_pattern(star_reply), word_count |-> word_count,
     persona |-> persona] @@ evaluate(eval_reply)

\* a STAR reply with one component present at a quality below zero
NegativeStarReply ==
    ReplyJson([present |-> [situation |-> JBool(TRUE), task |-> JBool(FALSE),
                            action |-> JBool(FALSE), result |-> JBool(FALSE)],
               quality |-> [situation |-> JNum(-10)]])

\* longest evaluation list explored by the score aggregation on its own
MaxEvaluations == 2

\* the evaluations a list handed to the aggregation is made of
AggregatedEvaluations ==
    { StoredEvaluation(e, s, w, p) :
        e \in {ReplyError, EvalReply(JBool(FALSE), JStr(0)),
               ReplyJson([confidence_score |-> JNum(0), clarity_score |-> JNum(100)])},
        s \in {ReplyError, StarReply, NegativeStarReply},
        w \in {40}, p \in {"normal", "confused"} }

\* the lists of at most n evaluations
RECURSIVE EvaluationLists(_)
EvaluationLists(n) ==
    IF n = 0 THEN {<<>>}
    ELSE LET shorter == EvaluationLists(n - 1)
         IN  shorter \cup {Append(l, e) : l \in {x \in shorter : Len(x) = n - 1},
                                          e \in AggregatedEvaluations}

InitScores ==
    InitCall({ [op |-> "input", all_evaluations |-> l, result |-> None] :
                 l \in EvaluationLists(MaxEvaluations) })

\* ReportGenerator._calculate_scores
CalculateScores ==
    /\ last.op = "input"
    /\ last' = [last EXCEPT !.op = "_calculate_scores",
                            !.result = _calculate_scores(last.all_evaluations)]
    /\ UNCHANGED <<TOTAL_QUESTIONS, sessions, session_evaluations, persona_history, in_flight>>

NextScores == CalculateScores

ScoresSpec == InitScores /\ [][NextScores]_vars

-----------------------------------------------------------------------------
(* The question generator called on its own                                *)

\* largest configured question count and longest backend list explored
MaxQuestionCount == 7
MaxEntries == 4

\* the lists of at most n entries, each one that converts or one that does not
RECURSIVE EntryLists(_)
EntryLists(n) ==
    IF n = 0 THEN {<<>>}
    ELSE LET shorter == EntryLists(n - 1)
         IN  shorter \cup {Append(l, e) : l \in {x \in shorter : Len(x) = n - 1},
                                          e \in {"ok", "bad"}}

\* replies of the backend to the question prompt
GeneratorReplies ==
    {ReplyError, ReplyText, ReplyNonDict} \cup {ReplyJson(l) : l \in EntryLists(MaxEntries)}

InitQuestions ==
    /\ TOTAL_QUESTIONS \in 1..MaxQuestionCount
    /\ sessions = <<>>
    /\ session_evaluations = <<>>
    /\ persona_history = <<>>
    /\ in_flight = <<>>
    /\ last \in {Pending(reply) : reply \in GeneratorReplies}

\* QuestionGenerator.generate_questions
GenerateQuestions ==
    /\ last.op = "input"
    /\ last' = [op |-> "generate_questions", reply |-> last.reply,
                result |-> generate_questions(last.reply, TOTAL_QUESTIONS)]
    /\ UNCHANGED <<TOTAL_QUESTIONS, sessions, session_evaluations, persona_history, in_flight>>

NextQuestions == GenerateQuestions

QuestionsSpec == InitQuestions /\ [][NextQuestions]_vars

-----------------------------------------------------------------------------
(* The classification rules on one answer                                  *)

\* word counts, durations, hesitation hits and distinct-character counts on
\* both sides of every threshold of the rules
RuleWordCounts == {9, 10, 40, 49, 50, 150, 151, 300, 301, 320, 350}
RuleDurations == {40, 89, 90, 150, 151, 180}
RuleHesitations == 0..4
RuleUniqueChars == {4, 5}

\* the detect_persona calls explored on a fresh detector; word_count is
\* len(answer_text.split()) as submit_answer passes it
RuleClassifications ==
    { Classification([words |-> w, uniq |-> u, hes |-> h, star |-> s], d, r) :
        w \in RuleWordCounts, u \in RuleUniqueChars, h \in RuleHesitations,
        s \in BOOLEAN, d \in RuleDurations,
        r \in {ReplyError, WordsReply({"EFFICIENT"})} }

InitRules ==
    InitCall({ [op |-> "input", answer |-> c.answer,
                duration_seconds |-> c.duration_seconds, word_count |-> c.word_count,
                reply |-> c.reply, result |-> None, requests |-> 0] :
                 c \in RuleClassifications })

\* PersonaDetector.detect_persona on the pending answer
ClassifyPending ==
    /\ last.op = "input"
    /\ DetectPersona(last.answer, last.duration_seconds, last.word_count, last.reply)

NextRules == ClassifyPending

RulesSpec == InitRules /\ [][NextRules]_vars

-----------------------------------------------------------------------------
(* Two submit_answer calls in flight on one session                        *)
(* The calls run on one event loop: a call runs without interruption from  *)
(* one backend request (await self.llm.generate) to the next, is suspended *)
(* at the request, and the other call may run meanwhile.  Its locals       *)
(* (session, q_session, answer, persona, evaluation) are kept in its       *)
(* frame.                                                                  *)

RaceCallers == {"a", "b"}
RaceSessionId == "s1"

\* a caller with no call begun
Idle == [pc |-> "idle"]

\* the backend requests a call can be suspended at
Suspended == {"persona", "evaluate", "star", "follow_up"}

\* a call that returned or raised: its frame keeps the response
Finished(f, r) ==
    [f EXCEPT !.pc = "done",
              !.response = Call("submit_answer", f.session_id, f.sub.question_id,
                                f.sub.answer_text, f.sub.duration_seconds, r)]

\* what a stretch of a call did: the store it leaves and the call's frame
Stretch(S, f) == [store |-> S, frame |-> f]
Ends(f, r) == Stretch(r.store, Finished(f, r))

\* variant: the cursor is moved to the slot after the one the call recorded on
AdvanceInFlight_FromEntry(S, f, requests) ==
    AdvanceAfterAnswer(S, f.session_id,
        [S.sessions[f.session_id] EXCEPT !.current_question_index = f.idx - 1],
        f.now, requests)

\* session.current_question_index += 1 and what follows it, in a call that
\* may have been suspended since it read the cursor
AdvanceInFlight(S, f, requests) ==
    AdvanceAfterAnswer(S, f.session_id, S.sessions[f.session_id], f.now, requests)

\* persona_history.append(persona); q_session.persona_detected = persona, then
\* the call is suspended at the evaluation request
TrackPersona(S, f, persona, requests) ==
    Stretch([S EXCEPT !.persona_history = Append(@, persona),
                      !.sessions[f.session_id].questions[f.idx].persona_detected = persona],
            [f EXCEPT !.pc = "evaluate", !.persona = persona, !.requests = requests])

\* submit_answer from its entry to its first backend request: the two checks,
\* q_session = session.questions[current_question_index], the answer stored
\* on it, the rule-based classification
enter_submit_answer(S, f) ==
    IF f.session_id \notin DOMAIN S.sessions THEN Ends(f, Raised(S, "ValueError", 0))
    ELSE IF TimeLimitExceeded(f.sub.duration_seconds)
    THEN Ends(f, SubmitAnswerResponse(S, FALSE, None, None, FALSE, 0))
    ELSE
    LET cur == CurrentSlot(S.sessions[f.session_id])
    IN  IF cur.raised THEN Ends(f, Raised(S, "IndexError", 0))
        ELSE
        LET word_count == f.sub.answer_text.words
            answer == [kind |-> "Answer", question_id |-> f.sub.question_id,
                       answer_text |-> f.sub.answer_text,
                       duration_seconds |-> f.sub.duration_seconds,
                       word_count |-> word_count]
            S1 == [S EXCEPT !.sessions[f.session_id].questions[cur.idx].initial_answer = answer]
            g == [f EXCEPT !.idx = cur.idx]
        IN  IF PersonaEscalates(f.sub.answer_text, f.sub.duration_seconds, word_count)
            THEN Stretch(S1, [g EXCEPT !.pc = "persona"])
            ELSE TrackPersona(S1, g,
                    _rule_based_detection(f.sub.answer_text, f.sub.duration_seconds, word_count), 0)

\* submit_answer from the reply to one backend request to the next request or
\* to its return
resume_submit_answer(S, f) ==
    CASE f.pc = "persona" ->
            TrackPersona(S, f, _llm_based_detection(f.sub.be.persona), f.requests + 1)
      [] f.pc = "evaluate" ->
            Stretch(S, [f EXCEPT !.pc = "star", !.evaluation = evaluate(f.sub.be.evaluation),
                                 !.requests = @ + 1])
      [] f.pc = "star" ->
            LET evaluation == [star_analysis |-> check_star_pattern(f.sub.be.star),
                               word_count |-> f.sub.answer_text.words,
                               persona |-> f.persona] @@ f.evaluation
                S1 == [S EXCEPT
                         !.sessions[f.session_id].questions[f.idx].evaluation = evaluation,
                         !.session_evaluations[f.session_id] = Append(@, evaluation)]
            IN  IF FollowUpRequested(evaluation)
                THEN Stretch(S1, [f EXCEPT !.pc = "follow_up", !.evaluation = evaluation,
                                           !.requests = @ + 1])
                ELSE Ends(f, AdvanceInFlight(S1, f, f.requests + 1))
      [] f.pc = "follow_up" ->
            LET follow_up == generate_follow_up(f.evaluation, f.persona, f.sub.be.follow_up)
            IN  IF follow_up.kind = "ValidationError"
                THEN Ends(f, Raised(S, "ValidationError", f.requests + 1))
                ELSE IF follow_up.kind = "FollowUpQuestion"
                THEN Ends(f, AttachFollowUp(S, f.session_id, f.idx, follow_up, f.requests + 1))
                ELSE Ends(f, AdvanceInFlight(S, f, f.requests + 1))

\* the submit_answer calls the two callers make
RaceSubmissions ==
    { Submission(1, LongAnswer, ANSWER_TIME_SECONDS, BackendNoFollowUp),
      Submission(1, LongAnswer, ANSWER_TIME_SECONDS, BackendFollowUp),
      Submission(2, ShortAnswer, ANSWER_TIME_SECONDS, BackendDown) }

\* a session of two questions just started
RaceStarted ==
    start_interview([sessions |-> <<>>, session_evaluations |-> <<>>,
                     persona_history |-> <<>>],
                    RaceSessionId, ReplyJson(<<"ok", "ok">>), 2).store

\* the same session with its first question answered
RaceOneAnswered ==
    submit_answer(RaceStarted, RaceSessionId, 1, LongAnswer, ANSWER_TIME_SECONDS,
                  BackendNoFollowUp, 1).store

\* a session in progress at its first or at its last question, no call in
\* flight
InitRace ==
    /\ TOTAL_QUESTIONS = 2
    /\ \E S \in {RaceStarted, RaceOneAnswered} :
            /\ sessions = S.sessions
            /\ session_evaluations = S.session_evaluations
            /\ persona_history = S.persona_history
    /\ last = NoCall
    /\ in_flight = [c \in RaceCallers |-> Idle]

\* the store and the frame after a stretch of caller c's call
Leaves(c, step) ==
    /\ sessions' = step.store.sessions
    /\ session_evaluations' = step.store.session_evaluations
    /\ persona_history' = step.store.persona_history
    /\ in_flight' = [in_flight EXCEPT ![c] = step.frame]
    /\ last' = IF step.frame.pc = "done" THEN step.frame.response ELSE last
    /\ UNCHANGED TOTAL_QUESTIONS

\* caller c's request arrives: submit_answer runs up to its first backend
\* request.  The frame also notes the store the call found and whether the
\* other caller's call was suspended then.
BeginSubmitAnswer(c, sub, now) ==
    /\ in_flight[c] = Idle
    /\ Leaves(c, enter_submit_answer(Store,
            [pc |-> "enter", session_id |-> RaceSessionId, sub |-> sub, now |-> now,
             idx |-> 0, persona |-> "normal", evaluation |-> None, requests |-> 0,
             response |-> None, entered |-> Store,
             first |-> \A d \in RaceCallers : in_flight[d] = Idle,
             overlapped |-> \E d \in RaceCallers : in_flight[d].pc \in Suspended]))

\* the backend replies to caller c's pending request: the call runs on to its
\* next request or to its end
ResumeSubmitAnswer(c) ==
    /\ in_flight[c].pc \in Suspended
    /\ Leaves(c, resume_submit_answer(Store, in_flight[c]))

NextRace ==
    \/ \E c \in RaceCallers, sub \in RaceSubmissions, now \in Times :
            BeginSubmitAnswer(c, sub, now)
    \/ \E c \in RaceCallers : ResumeSubmitAnswer(c)

RaceSpec == InitRace /\ [][NextRace]_vars

-----------------------------------------------------------------------------
(* One caller that follows the protocol                                    *)
(* The caller starts its session once, answers the current question with   *)
(* an in-limit submit_answer, and answers a returned follow-up with         *)
(* submit_followup_answer before anything else.                            *)

\* what the backend may do during one submit_answer
ProtocolBackends == {BackendNoFollowUp, BackendFollowUp, BackendNullReason, BackendDown}

\* the response the caller holds asks for a follow-up answer
FollowUpPending ==
    /\ last.op = "submit_answer"
    /\ last.outcome = "returned"
    /\ last.follow_up_question # None

ProtocolStart(session_id, reply) ==
    /\ sessions = <<>>
    /\ Start(session_id, reply)

ProtocolAnswer(session_id, be, now) ==
    /\ session_id \in DOMAIN sessions
    /\ sessions[session_id].status = "in_progress"
    /\ ~FollowUpPending
    /\ SubmitAnswer(session_id, get_current_question(Store, session_id).result.question_id,
                    LongAnswer, ANSWER_TIME_SECONDS, be, now)

ProtocolFollowup(session_id, now) ==
    /\ session_id \in DOMAIN sessions
    /\ FollowUpPending
    /\ SubmitFollowupAnswer(session_id, LongAnswer, ANSWER_TIME_SECONDS, now)

NextProtocol ==
    \/ \E id \in SessionIds, reply \in QuestionReplies : ProtocolStart(id, reply)
    \/ \E id \in SessionIds, be \in ProtocolBackends, now \in Times :
            ProtocolAnswer(id, be, now)
    \/ \E id \in SessionIds, now \in Times : ProtocolFollowup(id, now)

ProtocolSpec == Init /\ [][NextProtocol]_vars

-----------------------------------------------------------------------------
(* Properties                                                              *)

\* the call of this step leaves the whole store as it was
StoreUnchanged ==
    /\ sessions' = sessions
    /\ session_evaluations' = session_evaluations
    /\ persona_history' = persona_history

\* this step is the call op on a session id that is started
CallOnStarted(op) == last'.op = op /\ last'.session_id \in DOMAIN sessions

\* this step is a start on id
Restarted(id) == last'.op = "start" /\ last'.session_id = id

C1_StatusMatchesCursor ==
    \A id \in DOMAIN sessions :
        LET s == sessions[id]
        IN  /\ s.status \in {"in_progress", "completed"}
            /\ s.status = "completed" <=> s.current_question_index = Len(s.questions)
            /\ s.status = "in_progress" <=> s.end_time = None

C1_EndTimeStep ==
    \A id \in (DOMAIN sessions) \cap (DOMAIN sessions') :
        ~Restarted(id) =>
            LET s == sessions[id]
                t == sessions'[id]
                N == Len(s.questions)
            IN  /\ s.end_time # None => t.end_time = s.end_time
                /\ t.end_time # s.end_time =>
                        /\ s.current_question_index = N - 1
                        /\ t.current_question_index = N
                /\ (s.current_question_index # N /\ t.current_question_index = N) =>
                        t.end_time # None

\* C1: a session is completed exactly when its cursor equals its number of
\* questions; end_time is unset exactly while it is in_progress, is assigned in
\* the step that takes the cursor from N-1 to N, and is never reassigned to the
\* session afterwards
C1_CompletedIffCursorAtEnd == []C1_StatusMatchesCursor /\ [][C1_EndTimeStep]_vars

\* a submit_answer has just completed a session
C1_Witness ==
    /\ last.op = "submit_answer" /\ last.is_interview_complete
    /\ last.session_id \in DOMAIN sessions
    /\ sessions[last.session_id].status = "completed"
    /\ sessions[last.session_id].end_time # None

\* C2: a submit_answer on a started session with a duration over
\* ANSWER_TIME_SECONDS returns success=false, makes no backend request and
\* leaves sessions, evaluation lists and persona history as they were
C2_OverLimitChangesNothing ==
    [][(CallOnStarted("submit_answer") /\ last'.duration_seconds > ANSWER_TIME_SECONDS)
        => /\ last'.outcome = "returned"
           /\ last'.success = FALSE
           /\ last'.follow_up_question = None /\ last'.next_question = None
           /\ last'.requests = 0
           /\ StoreUnchanged]_vars

\* an over-limit submit_answer was rejected on a session that has an answer
\* recorded and a follow-up pending
C2_Witness ==
    /\ last.op = "submit_answer" /\ last.duration_seconds > ANSWER_TIME_SECONDS
    /\ last.success = FALSE
    /\ last.session_id \in DOMAIN sessions
    /\ sessions[last.session_id].questions[1].initial_answer # None
    /\ sessions[last.session_id].questions[1].follow_ups # <<>>

\* the operations that look a session up
LookupOps ==
    {"submit_answer", "submit_followup_answer", "get_current_question",
     "get_session_status", "get_report"}

\* C3: each of the five lookup operations called with an id that was never
\* started ends not-found (ValueError from the service, 404 from the routes),
\* over-limit submit_answer included, and leaves the store as it was: no entry
\* appears under the id and every other session is unchanged
C3_UnknownIdNotFound ==
    [][(last'.op \in LookupOps /\ last'.session_id \notin DOMAIN sessions)
        => /\ last'.outcome =
                IF last'.op \in {"get_session_status", "get_report"}
                THEN "HTTP404" ELSE "ValueError"
           /\ last'.success = FALSE
           /\ last'.session_id \notin DOMAIN sessions'
           /\ last'.session_id \notin DOMAIN session_evaluations'
           /\ StoreUnchanged]_vars

\* an over-limit submit_answer on an unknown id ended not-found while another
\* session was under way
C3_Witness ==
    /\ last.op = "submit_answer" /\ last.duration_seconds > ANSWER_TIME_SECONDS
    /\ last.outcome = "ValueError"
    /\ last.session_id \notin DOMAIN sessions
    /\ \E other \in DOMAIN sessions : sessions[other].current_question_index > 0

\* the three outcomes of an accepted submit_answer moving session s to t
C4_FollowUpAttached(s, t) ==
    LET i == s.current_question_index + 1
        fu == last'.follow_up_question
    IN  /\ fu # None /\ last'.next_question = None /\ ~last'.is_interview_complete
        /\ t.current_question_index = s.current_question_index
        /\ t.status = "in_progress"
        /\ t.questions[i].follow_ups =
                Append(s.questions[i].follow_ups,
                       [question |-> fu.text, answer |-> None, type |-> fu.type])

C4_NextQuestion(s, t) ==
    /\ last'.follow_up_question = None /\ ~last'.is_interview_complete
    /\ t.current_question_index = s.current_question_index + 1
    /\ t.current_question_index < Len(t.questions)
    /\ t.status = "in_progress"
    /\ last'.next_question = t.questions[t.current_question_index + 1].question

C4_Completed(s, t) ==
    /\ last'.follow_up_question = None /\ last'.next_question = None
    /\ last'.is_interview_complete
    /\ t.current_question_index = s.current_question_index + 1
    /\ t.current_question_index = Len(t.questions)
    /\ t.status = "completed"

\* C4: an accepted submit_answer on an in-progress session has exactly one of
\* the outcomes follow-up attached (cursor unchanged), next question returned
\* (cursor + 1), interview completed (cursor + 1 = N)
C4_ExactlyOneOutcome ==
    [][(/\ CallOnStarted("submit_answer") /\ last'.success
        /\ sessions[last'.session_id].status = "in_progress")
        => LET s == sessions[last'.session_id]
               t == sessions'[last'.session_id]
               a == C4_FollowUpAttached(s, t)
               b == C4_NextQuestion(s, t)
               c == C4_Completed(s, t)
           IN  /\ a \/ b \/ c
               /\ ~(a /\ b) /\ ~(a /\ c) /\ ~(b /\ c)]_vars

\* an accepted submit_answer returned the next question in a session where an
\* earlier one attached a follow-up
C4_Witness ==
    /\ last.op = "submit_answer" /\ last.success
    /\ last.next_question # None
    /\ last.session_id \in DOMAIN sessions
    /\ \E i \in DOMAIN sessions[last.session_id].questions :
            sessions[last.session_id].questions[i].follow_ups # <<>>

\* C5: submit_followup_answer on an in-progress session returns and advances
\* the cursor by exactly one; the text goes into the answer of the slot's most
\* recent follow-up if the slot has one, and nothing else is recorded
C5_FollowupAlwaysAdvances ==
    [][(/\ CallOnStarted("submit_followup_answer")
        /\ sessions[last'.session_id].status = "in_progress")
        => LET s == sessions[last'.session_id]
               t == sessions'[last'.session_id]
               i == s.current_question_index + 1
               fus == s.questions[i].follow_ups
           IN  /\ last'.outcome = "returned"
               /\ t.current_question_index = s.current_question_index + 1
               /\ t.questions =
                    IF fus = <<>> THEN s.questions
                    ELSE [s.questions EXCEPT ![i].follow_ups[Len(fus)].answer =
                                                    last'.answer_text]
               /\ session_evaluations' = session_evaluations
               /\ persona_history' = persona_history]_vars

\* a submit_followup_answer has just passed a slot that has no answer, no
\* follow-up and no evaluation
C5_Witness ==
    /\ last.op = "submit_followup_answer" /\ last.outcome = "returned"
    /\ last.session_id \in DOMAIN sessions
    /\ LET s == sessions[last.session_id]
           q == s.questions[s.current_question_index]
       IN  /\ q.initial_answer = None
           /\ q.follow_ups = <<>>
           /\ q.evaluation = None

\* C6: every question slot holds at most one follow-up, so a second
\* submit_answer on a slot with a pending follow-up attaches no second one
C6_AtMostOneFollowUp ==
    \A id \in DOMAIN sessions :
        \A i \in DOMAIN sessions[id].questions :
            Len(sessions[id].questions[i].follow_ups) <= 1

FreshSession(s) ==
    /\ s.current_question_index = 0
    /\ s.status = "in_progress"
    /\ s.end_time = None
    /\ \A i \in DOMAIN s.questions :
            /\ s.questions[i].initial_answer = None
            /\ s.questions[i].follow_ups = <<>>
            /\ s.questions[i].evaluation = None

C8_StartCreatesFreshSession ==
    last.op = "start" =>
        /\ last.session_id \in DOMAIN sessions
        /\ FreshSession(sessions[last.session_id])
        /\ Len(sessions[last.session_id].questions) = TOTAL_QUESTIONS
        /\ session_evaluations[last.session_id] = <<>>

C9_ReturnsSlotAtCursor ==
    (last.op = "get_current_question" /\ last.session_id \in DOMAIN sessions) =>
        LET s == sessions[last.session_id]
        IN  /\ last.outcome = "returned"
            /\ last.result =
                IF s.current_question_index = Len(s.questions) THEN None
                ELSE s.questions[s.current_question_index + 1].question

C9_ReadStep ==
    /\ CallOnStarted("get_current_question") => StoreUnchanged
    /\ (/\ last.op = "start" /\ last'.op = "get_current_question"
        /\ last'.session_id = last.session_id)
        => last'.result = last.result.questions[1].question

\* C9: get_current_question changes nothing in the store and returns the
\* question of the slot at the cursor, the first slot's question right after
\* start, and None when the cursor equals the number of questions; as the
\* result is a function of the unchanged store, a repeated call returns the
\* same question
C9_GetCurrentQuestionIsARead == []C9_ReturnsSlotAtCursor /\ [][C9_ReadStep]_vars

\* get_current_question returned the question of a slot after the first
C9_Witness ==
    /\ last.op = "get_current_question" /\ last.outcome = "returned"
    /\ last.result # None
    /\ last.session_id \in DOMAIN sessions
    /\ sessions[last.session_id].current_question_index > 0

\* C10: no in-progress session has an answer recorded on its current slot
\* with no follow-up attached to it; a submit_answer that recorded the answer
\* either attached a follow-up or moved the cursor off the slot
C10_NoHalfRecordedAnswer ==
    \A id \in DOMAIN sessions :
        LET s == sessions[id]
        IN  s.status = "in_progress" =>
                LET q == s.questions[s.current_question_index + 1]
                IN  q.initial_answer # None => q.follow_ups # <<>>

\* v clamped to [0, 100]
Clamp(v) == IF v < 0 THEN 0 ELSE IF v > 100 THEN 100 ELSE v

\* the four scores are numbers in [0, 100]
ScoresInRange(e) ==
    \A k \in ScoreKeys : e[k].t = "num" /\ 0 <= e[k].v /\ e[k].v <= 100

\* the fallback evaluation: all four scores 50 and no follow-up asked
AllFifty(e) ==
    /\ \A k \in ScoreKeys : e[k] = JNum(50)
    /\ ~Truthy(e.needs_follow_up)

C12_StarScoreInRange ==
    last.op = "check_star_pattern" =>
        LET a == last.result
        IN  /\ 0 <= a.score /\ a.score <= 100
            /\ (\A c \in DOMAIN a.present : ~Truthy(a.present[c])) => a.score = 0
            /\ (\A c \in DOMAIN a.present :
                    /\ Truthy(a.present[c])
                    /\ c \in DOMAIN a.quality /\ a.quality[c] = JNum(5))
                => a.score = 100

\* occurrences of label p in history h
Occurrences(h, p) == Cardinality({i \in 1..Len(h) : h[i] = p})

C13_DistributionCountsHistory ==
    LET d == get_persona_distribution(persona_history)
    IN  /\ DOMAIN d = {"confused", "efficient", "chatty", "edge_case", "normal"}
        /\ \A p \in DOMAIN d : d[p] = Occurrences(persona_history, p)
        /\ d["confused"] + d["efficient"] + d["chatty"] + d["edge_case"] + d["normal"]
                = Len(persona_history)
        /\ last.op = "get_persona_distribution" => last.result = d

C13_ClassifyAppendsOne ==
    last'.op = "detect_persona" =>
        /\ persona_history' = Append(persona_history, last'.result)
        /\ Len(persona_history') = Len(persona_history) + 1

\* C13: the persona distribution has exactly the five label keys, each count
\* is the number of occurrences of the label in the history and the counts sum
\* to the history length; every detect_persona call appends exactly one entry,
\* the label it returns
C13_DistributionMatchesHistory ==
    []C13_DistributionCountsHistory /\ [][C13_ClassifyAppendsOne]_vars

\* a distribution was read after three classifications, one of which consulted
\* the backend and one of which did not
C13_Witness ==
    /\ last.op = "get_persona_distribution"
    /\ Len(persona_history) = 3
    /\ last.result["normal"] = 1
    /\ last.result["confused"] = 1
    /\ last.result["edge_case"] = 1

\* C14: detect_persona on an answer of fewer than ten words returns edge_case
\* and appends edge_case to the history, whatever the backend replies
C14_ShortAnswerIsEdgeCase ==
    (last.op = "detect_persona" /\ last.word_count < 10 /\ last.answer.words < 10) =>
        /\ last.result = "edge_case"
        /\ persona_history[Len(persona_history)] = "edge_case"

\* C15: with a follow_up_reason that is a string, generate_follow_up returns
\* None exactly when needs_follow_up is false, then without a backend request;
\* when it is true it returns a follow-up whose text is not empty, whatever
\* the backend replies
C15_NoneOnlyAtGate ==
    (last.op = "generate_follow_up" /\ last.evaluation.follow_up_reason.t = "str") =>
        /\ last.result = None <=> ~Truthy(last.evaluation.needs_follow_up)
        /\ ~Truthy(last.evaluation.needs_follow_up) => last.requests = 0
        /\ Truthy(last.evaluation.needs_follow_up) =>
                /\ last.result.kind = "FollowUpQuestion"
                /\ last.result.text # <<>>

\* C16: over the empty evaluation list the aggregation returns confidence 50,
\* communication 50, technical depth 50, narrative 0, behavioral 50, and an
\* overall score equal to 0.25*50 + 0.25*50 + 0.25*50 + 0.15*0 + 0.10*50
C16_EmptyListOverallFromWeights ==
    (last.op = "_calculate_scores" /\ last.all_evaluations = <<>>) =>
        LET s == last.result
        IN  /\ s.confidence = Ratio(50, 1)
            /\ s.communication = Ratio(50, 1)
            /\ s.technical_depth = Ratio(50, 1)
            /\ s.star_method_usage = Ratio(0, 1)
            /\ s.behavioral_clarity = Ratio(50, 1)
            /\ 100 * s.overall.num =
                    (25 * 50 + 25 * 50 + 25 * 50 + 15 * 0 + 10 * 50) * s.overall.den

\* the entry points that produce a report
ReportOps == {"get_report", "download_pdf"}

\* C17: a report request for a session that is still in_progress is rejected
\* as a caller error (400) by every report-producing entry point, and the
\* aggregation is not run
C17_ReportOnlyWhenCompleted ==
    (/\ last.op \in ReportOps
     /\ last.session_id \in DOMAIN sessions
     /\ sessions[last.session_id].status = "in_progress")
        => /\ last.outcome = "HTTP400"
           /\ last.result = None
           /\ last.requests = 0

\* C18: a report request, whether the aggregation returns or raises, leaves
\* every session and every evaluation list exactly as before the call
C18_AggregationOnlyReads ==
    [][last'.op \in ReportOps => StoreUnchanged]_vars

\* generate-report produced the report of a completed session with a
\* question evaluation in it
C18_Witness ==
    /\ last.op = "get_report" /\ last.outcome = "returned"
    /\ last.session_id \in DOMAIN sessions
    /\ Len(last.result.question_evaluations) > 0
    /\ session_evaluations[last.session_id] # <<>>

\* C19: generate_questions returns exactly TOTAL_QUESTIONS questions for every
\* backend reply, all of them generic when the whole batch fails
C19_ExactlyNQuestions ==
    last.op = "generate_questions" =>
        /\ Len(last.result) = TOTAL_QUESTIONS
        /\ last.reply.kind # "json" =>
                \A i \in 1..Len(last.result) : last.result[i].origin = "generic"

\* C20: the persona history is scoped to one session: a session in which no
\* answer has been classified yet has an empty history, whatever was
\* submitted before it was started or in another session
C20_HistoryScopedToSession ==
    \A id \in DOMAIN sessions :
        FreshSession(sessions[id]) => persona_history = <<>>

\* new is old with exactly one entry appended at the end
AppendedOne(old, new) ==
    /\ Len(new) = Len(old) + 1
    /\ SubSeq(new, 1, Len(old)) = old

\* this step is a call on id that must leave its evaluation list alone: a
\* follow-up answer, a read, or a submit_answer that was rejected or failed
\* at the cursor
NoEvaluationCall(id) ==
    /\ last'.session_id = id
    /\ \/ last'.op \in {"submit_followup_answer", "get_current_question"}
       \/ last'.op = "submit_answer" /\ last'.outcome = "returned" /\ ~last'.success
       \/ last'.op = "submit_answer" /\ last'.outcome = "IndexError"

\* C21: between two starts of an id the session's evaluation list only grows
\* at the end: an accepted submit_answer appends exactly one evaluation, a
\* follow-up answer, a rejected or not-found call and get_current_question
\* append none, no step removes or reorders entries, and the list of a
\* completed session stays as it is
C21_EvaluationsAppendOnly ==
    [][/\ last'.outcome = "ValueError" => session_evaluations' = session_evaluations
       /\ \A id \in DOMAIN sessions :
            LET old == session_evaluations[id]
                new == session_evaluations'[id]
            IN  ~Restarted(id) =>
                    /\ new = old \/ AppendedOne(old, new)
                    /\ (last'.op = "submit_answer" /\ last'.session_id = id
                            /\ last'.outcome = "returned" /\ last'.success)
                        => AppendedOne(old, new)
                    /\ NoEvaluationCall(id) => new = old
                    /\ sessions[id].status = "completed" => new = old]_vars

C21_Witness ==
    /\ last.op = "get_current_question"
    /\ last.session_id \in DOMAIN sessions
    /\ sessions[last.session_id].status = "completed"
    /\ Len(session_evaluations[last.session_id]) >= 2
    /\ session_evaluations[last.session_id][1].persona
            # session_evaluations[last.session_id][2].persona

\* the components a reply marks present
MarkedPresent(a) ==
    {c \in {"situation", "task", "action", "result"} :
        c \in DOMAIN a.present /\ Truthy(a.present[c])}

\* the quality rating of component c, 0 when the reply gives none
QualityOf(a, c) == IF c \in DOMAIN a.quality THEN a.quality[c].v ELSE 0

\* 10 presence points and quality/5*15 quality points for a present component
ComponentPoints(a, c) ==
    IF c \in MarkedPresent(a) THEN 10 + (QualityOf(a, c) * 15) \div 5 ELSE 0

\* every component marked present is rated with a number or not rated at all
RatedWithNumbers(a) ==
    \A c \in MarkedPresent(a) : c \in DOMAIN a.quality => a.quality[c].t = "num"

\* C22: the narrative score is min(100, sum over the present components of
\* 10 + quality/5*15); an absent component adds nothing whatever its quality,
\* a present component of quality 0 adds exactly 10, and situation/task/action
\* present with qualities 4, 3, 5 and result absent scores 66
C22_NarrativeScoreFormula ==
    (last.op = "check_star_pattern" /\ last.reply.kind = "json"
        /\ RatedWithNumbers(last.reply.obj)) =>
        LET a == last.reply.obj
            total == ComponentPoints(a, "situation") + ComponentPoints(a, "task")
                     + ComponentPoints(a, "action") + ComponentPoints(a, "result")
        IN  /\ last.result.score = (IF total > 100 THEN 100 ELSE total)
            /\ (\E c \in MarkedPresent(a) :
                    MarkedPresent(a) = {c} /\ QualityOf(a, c) = 0)
                => last.result.score = 10
            /\ last.reply = StarReply => last.result.score = 66

C22_Witness ==
    /\ last.op = "check_star_pattern"
    /\ last.reply = StarReply
    /\ MarkedPresent(last.reply.obj) = {"situation", "task", "action"}
    /\ last.result.score = 66

\* C23: the type of a follow-up is decided by the first matching rule:
\* off-topic gives redirect; else relevance < 60 gives probe; else persona
\* confused gives hint; else confidence > 80 gives challenge; else probe,
\* whatever the technical depth.  So hint needs an on-topic, relevant,
\* confused answer and challenge an on-topic, relevant, non-confused answer
\* of confidence above 80.
C23_TypeByFirstMatchingRule ==
    (last.op = "generate_follow_up" /\ last.result # None
        /\ last.result.kind = "FollowUpQuestion") =>
        LET on == last.evaluation.is_on_topic = JBool(TRUE)
            relevance == last.evaluation.relevance_score.v
            confidence == last.evaluation.confidence_score.v
            confused == last.persona = "confused"
            type == last.result.type
        IN  /\ Truthy(last.evaluation.needs_follow_up)
            /\ ~on => type = "redirect"
            /\ (on /\ relevance < 60) => type = "probe"
            /\ (on /\ relevance >= 60 /\ confused) => type = "hint"
            /\ (on /\ relevance >= 60 /\ ~confused /\ confidence > 80)
                    => type = "challenge"
            /\ (on /\ relevance >= 60 /\ ~confused /\ confidence <= 80)
                    => type = "probe"
            /\ type = "hint" => (on /\ relevance >= 60 /\ confused)
            /\ type = "challenge" =>
                    (on /\ relevance >= 60 /\ ~confused /\ confidence > 80)

C23_Witness ==
    /\ last.op = "generate_follow_up"
    /\ last.result # None
    /\ last.result.kind = "FollowUpQuestion"
    /\ last.result.type = "hint"
    /\ last.evaluation.confidence_score.v > 80
    /\ last.evaluation.technical_depth_score.v < 60

\* C24: an answer of at least 10 words and 5 distinct characters is
\* classified without the backend by the first matching rule: hesitation
\* hits > 3, or > 1 with fewer than 50 words, gives confused; else more than
\* 300 words or more than 150 seconds gives chatty; else 50..150 words in
\* under 90 seconds with a narrative keyword gives efficient; else normal.
\* A hesitant 40-word answer is confused, 320 words in 40 seconds with at most
\* 3 hits is chatty, and the 350-word, 180-second answer of the test suite
\* (no hesitation word in it) is chatty.
C24_PersonaByFirstMatchingRule ==
    (last.op = "detect_persona" /\ last.word_count >= 10 /\ last.answer.words >= 10
        /\ last.answer.uniq >= 5) =>
        LET hits == last.answer.hes
            words == last.word_count
            secs == last.duration_seconds
            hesitant == hits > 3 \/ (hits > 1 /\ words < 50)
            long == words > 300 \/ secs > 150
            brisk == words >= 50 /\ words <= 150 /\ secs < 90 /\ last.answer.star
        IN  /\ last.requests = 0
            /\ hesitant => last.result = "confused"
            /\ (~hesitant /\ long) => last.result = "chatty"
            /\ (~hesitant /\ ~long /\ brisk) => last.result = "efficient"
            /\ (~hesitant /\ ~long /\ ~brisk) => last.result = "normal"
            /\ (words = 40 /\ hits > 1) => last.result = "confused"
            /\ (words = 320 /\ secs = 40 /\ hits <= 3) => last.result = "chatty"
            /\ (words = 350 /\ secs = 180 /\ hits = 0) => last.result = "chatty"

C24_Witness ==
    /\ last.op = "detect_persona"
    /\ last.word_count = 320 /\ last.answer.words = 320
    /\ last.duration_seconds = 40
    /\ last.answer.hes = 3
    /\ last.answer.uniq >= 5
    /\ last.result = "chatty"
    /\ persona_history = <<"chatty">>

\* C25: the questions of a started session carry the identifiers 1, 2, ...
\* in slot order, each exactly once, whatever the backend returned
C25_QuestionIdsInSlotOrder ==
    \A id \in DOMAIN sessions :
        \A i \in DOMAIN sessions[id].questions :
            sessions[id].questions[i].question.question_id = i

\* both callers' calls have run to their end
RaceDone == \A c \in RaceCallers : in_flight[c].pc = "done"

\* the call recorded its answer and moved the cursor
RaceAdvanced(f) ==
    /\ f.idx > 0
    /\ f.response.outcome = "returned" /\ f.response.success
    /\ f.response.follow_up_question = None

\* the store the two calls in the serial order f, g leave, from store S
SerialStore(S, f, g) ==
    LET after == submit_answer(S, f.session_id, f.sub.question_id, f.sub.answer_text,
                               f.sub.duration_seconds, f.sub.be, f.now).store
    IN  submit_answer(after, g.session_id, g.sub.question_id, g.sub.answer_text,
                      g.sub.duration_seconds, g.sub.be, g.now).store

\* C26: two submit_answer calls on one session race when they are in flight
\* together.  Calls that did not overlap leave the store of their serial
\* order.  Calls that read the same slot and both advanced were overlapping,
\* and leave a store no serial order produces: both recorded on that slot,
\* both appended an evaluation, the cursor moved by two, so that the next
\* question is skipped unanswered or the cursor is above the question count
\* with the interview completed twice.
C26_InterleavedCallsRace ==
    RaceDone =>
        LET fa == in_flight["a"]
            fb == in_flight["b"]
            first == IF fa.first THEN fa ELSE fb
            second == IF fa.first THEN fb ELSE fa
            base == first.entered
            session == sessions[RaceSessionId]
        IN  /\ ~second.overlapped => Store = SerialStore(base, first, second)
            /\ (fa.idx = fb.idx /\ RaceAdvanced(fa) /\ RaceAdvanced(fb)) =>
                /\ second.overlapped
                /\ session.current_question_index
                        = base.sessions[RaceSessionId].current_question_index + 2
                /\ Len(session_evaluations[RaceSessionId])
                        = Len(base.session_evaluations[RaceSessionId]) + 2
                /\ session.questions[fa.idx].initial_answer.answer_text
                        \in {fa.sub.answer_text, fb.sub.answer_text}
                /\ Store \notin {SerialStore(base, fa, fb), SerialStore(base, fb, fa)}
                /\ IF fa.idx < Len(session.questions)
                   THEN session.questions[fa.idx + 1].initial_answer = None
                   ELSE /\ session.current_question_index > Len(session.questions)
                        /\ fa.response.is_interview_complete
                        /\ fb.response.is_interview_complete

C26_Witness ==
    /\ RaceDone
    /\ in_flight["a"].idx = 1 /\ in_flight["b"].idx = 1
    /\ RaceAdvanced(in_flight["a"]) /\ RaceAdvanced(in_flight["b"])
    /\ in_flight["a"].sub # in_flight["b"].sub
    /\ sessions[RaceSessionId].current_question_index = 2
    /\ sessions[RaceSessionId].status = "completed"
    /\ sessions[RaceSessionId].questions[2].initial_answer = None
    /\ Len(session_evaluations[RaceSessionId]) = 2

\* C27: the evaluation at position i of a session's evaluation list is the
\* evaluation of the answer recorded in question slot i, and every answered
\* slot has its evaluation at its own position
C27_EvaluationsAlignedWithSlots ==
    \A id \in DOMAIN sessions :
        LET slots == sessions[id].questions
            evaluations == session_evaluations[id]
        IN  /\ \A i \in 1..Len(evaluations) :
                    /\ i <= Len(slots)
                    /\ slots[i].initial_answer # None
                    /\ slots[i].evaluation = evaluations[i]
            /\ \A i \in 1..Len(slots) :
                    slots[i].evaluation # None =>
                        (i <= Len(evaluations) /\ evaluations[i] = slots[i].evaluation)

C28_CursorInRange ==
    \A id \in DOMAIN sessions :
        /\ 0 <= sessions[id].current_question_index
        /\ sessions[id].current_question_index <= Len(sessions[id].questions)

\* this step is a submit call on id that moves on: an accepted submit_answer
\* that produced no follow-up, or a submit_followup_answer that returned
MovesOn(id) ==
    /\ last'.session_id = id
    /\ last'.outcome = "returned"
    /\ \/ last'.op = "submit_followup_answer"
       \/ last'.op = "submit_answer" /\ last'.success /\ last'.follow_up_question = None

C28_CursorStep ==
    \A id \in DOMAIN sessions :
        ~Restarted(id) =>
            LET c == sessions[id].current_question_index
                d == sessions'[id].current_question_index
                N == Len(sessions[id].questions)
            IN  /\ d = c \/ d = c + 1
                /\ d = c + 1 <=> MovesOn(id)
                /\ (c = N /\ last'.session_id = id
                        /\ last'.op \in {"submit_answer", "submit_followup_answer"})
                    => (d = c /\ ~(last'.outcome = "returned" /\ last'.success))

\* C28: with calls serialized the cursor stays within 0..N; between two
\* starts of an id it never decreases and moves only by +1, exactly in an
\* accepted submit_answer that produced no follow-up and in a
\* submit_followup_answer; a submit call at cursor N fails and leaves the
\* cursor where it is
C28_CursorMovesByOneWithinRange == []C28_CursorInRange /\ [][C28_CursorStep]_vars

C28_Witness ==
    /\ last.op = "submit_answer"
    /\ last.outcome = "IndexError"
    /\ last.session_id \in DOMAIN sessions
    /\ sessions[last.session_id].current_question_index
            = Len(sessions[last.session_id].questions)
    /\ Len(sessions[last.session_id].questions) = 5
    /\ session_evaluations[last.session_id] # <<>>

\* the follow-up answers recorded in a session
RECURSIVE FollowUpsAnswered(_, _)
FollowUpsAnswered(slots, i) ==
    IF i > Len(slots) THEN 0
    ELSE Cardinality({k \in 1..Len(slots[i].follow_ups) :
                        slots[i].follow_ups[k].answer # None})
         + FollowUpsAnswered(slots, i + 1)

\* the submit calls a session has processed since its start: one evaluation
\* is appended per processed submit_answer
CallsProcessed(id) ==
    Len(session_evaluations[id]) + FollowUpsAnswered(sessions[id].questions, 1)

\* C29: a caller that follows the protocol spends at most two processed
\* calls per question, whatever the backend returns, so its session is
\* completed after at most 2N of them: while the session is in progress the
\* calls processed are at most two per question passed plus one on the
\* current question, and never more than 2N
C29_CompletedWithinTwoCallsPerQuestion ==
    \A id \in DOMAIN sessions :
        LET s == sessions[id]
        IN  /\ CallsProcessed(id) <= 2 * Len(s.questions)
            /\ s.status = "in_progress" =>
                    CallsProcessed(id) <= 2 * s.current_question_index + 1

\* C30: the Answer stored in a question slot carries the identifier of that
\* slot's question
C30_AnswerCarriesSlotQuestionId ==
    \A id \in DOMAIN sessions :
        \A i \in DOMAIN sessions[id].questions :
            LET slot == sessions[id].questions[i]
            IN  slot.initial_answer # None =>
                    slot.initial_answer.question_id = slot.question.question_id

=============================================================================
